---- MODULE Spec2Model ----
(***************************************************************************)
(* Green-score service (server/main.py): a users table, a products table   *)
(* and a purchases table in one SQLite file, the scoring function          *)
(* calculate_green_score, and the HTTP handlers register_user, get_user,   *)
(* get_green_score, record_purchase and get_user_purchases.                *)
(*                                                                         *)
(* Spec      : the handlers run one request at a time, each to completion. *)
(* ConcSpec  : the two synchronous handlers (register_user and             *)
(*             record_purchase, which the framework runs on pool threads)  *)
(*             advance one SQL statement at a time, interleaved.           *)
(* ScoreSpec : calculate_green_score applied to a grid of inputs.          *)
(***************************************************************************)
EXTENDS Integers, Sequences, FiniteSets, TLC

VARIABLES users, products, purchases, response, conn, lock, scoring

vars == <<users, products, purchases, response, conn, lock, scoring>>

(***************************************************************************)
(* Bounds of the model.                                                    *)
(***************************************************************************)
\* uuid4 values that can be drawn for users, and uuids of products
MaxUsers == 3
MaxProducts == 2
\* distinct 10-digit phone numbers
MaxPhones == 2
\* readings of datetime.utcnow()
MaxClock == 1
\* pool threads serving synchronous handlers
MaxWorkers == 2
\* cost and carbon_emission are multiples of 1/Scale; for Scale a power of two
\* every grid point and every intermediate value is exact in binary floating
\* point, so the rational arithmetic below is the float arithmetic of the code
Scale == 2
\* the grid covers [-NegRange, MaxCost] x [-NegRange, MaxEmission]
MaxCost == 52
MaxEmission == 22
NegRange == 2

UserIds == 1..MaxUsers
ProductIds == 1..MaxProducts
Phones == 1..MaxPhones
Times == 0..MaxClock
Workers == 1..MaxWorkers
Names == {"ann", "bob"}
\* the interleaved runs draw one name and one clock reading
ConcNames == {"ann"}
ConcTimes == {0}
ProductNames == {"item"}

CostGrid == (0 - NegRange * Scale)..(MaxCost * Scale)
EmissionGrid == (0 - NegRange * Scale)..(MaxEmission * Scale)
\* the (cost, carbon_emission) pairs of catalogued products, as grid numerators
CatalogCosts == {10 * Scale}
CatalogEmissions == {5 * Scale, 20 * Scale}

(***************************************************************************)
(* calculate_green_score.  A real is a pair <<numerator, denominator>>     *)
(* with a positive denominator.                                            *)
(***************************************************************************)
Real(n) == <<n, 1>>
RSub(a, b) == <<a[1] * b[2] - b[1] * a[2], a[2] * b[2]>>
RMulInt(a, k) == <<a[1] * k, a[2]>>
RDivInt(a, k) == <<a[1], a[2] * k>>
\* max(0, a)
Max0(a) == IF a[1] > 0 THEN a ELSE Real(0)

int_floor(a) == a[1] \div a[2]

\* int(): truncation toward zero
int(a) == IF a[1] >= 0 THEN a[1] \div a[2] ELSE 0 - ((0 - a[1]) \div a[2])

cost_factor_25(cost) == RMulInt(Max0(RDivInt(RSub(Real(50), cost), 50)), 25)

cost_factor(cost) == RMulInt(Max0(RDivInt(RSub(Real(50), cost), 50)), 20)

emission_factor(carbon_emission) ==
    RMulInt(Max0(RDivInt(RSub(Real(20), carbon_emission), 20)), 80)

\* cost and carbon_emission are grid numerators (the value times Scale)
calculate_green_score(cost, carbon_emission) ==
    LET base_score == Real(100)
    IN  int(RSub(RSub(base_score, cost_factor(<<cost, Scale>>)),
                 emission_factor(<<carbon_emission, Scale>>)))

(***************************************************************************)
(* The SQLite store.  A table is a set of rows (users, products) or a      *)
(* sequence of rows in rowid order (purchases); a row is a record whose    *)
(* fields are the columns init_db creates.                                 *)
(***************************************************************************)
UsersColumns == <<"id", "phone_number", "name", "green_score">>
ProductsColumns == <<"id", "name", "cost", "carbon_emission", "sustainability_score">>

Range(s) == {s[i] : i \in 1..Len(s)}

Select_NoWhere(table, columns, column, value) ==
    IF column \in Range(columns)
    THEN [error |-> "", rows |-> table]
    ELSE [error |-> "OperationalError: no such column", rows |-> {}]

\* SELECT ... FROM table WHERE column = value: preparing the statement fails
\* when the table has no such column
Select(table, columns, column, value) ==
    IF column \in Range(columns)
    THEN [error |-> "", rows |-> {r \in table : r[column] = value}]
    ELSE [error |-> "OperationalError: no such column", rows |-> {}]

\* cursor.fetchone(): the empty set stands for None
TheRow(rows) == CHOOSE r \in rows : TRUE

\* name lookup in the globals of main.py
ModuleGlobals == {"fastapi", "uvicorn", "BaseModel", "Field", "List", "UUID",
                  "uuid4", "datetime", "sqlite3", "app", "DATABASE", "init_db",
                  "calculate_green_score", "User", "UserResponse",
                  "GreenScoreResponse", "Product", "ProductResponse", "Purchase",
                  "PurchaseResponse", "UserPurchaseResponse", "on_startup",
                  "register_user", "get_user", "get_green_score",
                  "record_purchase", "get_user_purchases"}

\* what the client receives: a returned value, a raised fastapi.HTTPException,
\* or the 500 the framework sends for any other exception
Returned(op, args, body) ==
    [op |-> op, args |-> args, status |-> 200, detail |-> "", body |-> <<body>>]
HTTPException(op, args, status_code, detail) ==
    [op |-> op, args |-> args, status |-> status_code, detail |-> detail, body |-> <<>>]
Unhandled(op, args, exception) ==
    [op |-> op, args |-> args, status |-> 500, detail |-> exception, body |-> <<>>]

NoResponse == [op |-> "startup", args |-> <<>>, status |-> 0, detail |-> "", body |-> <<>>]

\* a pool thread: the handler it runs, the statement it is at, the request,
\* the locals user and product (fetchone() results), the uncommitted tables of
\* its connection's open transaction, and the response once it has one
Idle == [op |-> "idle", pc |-> "idle", args |-> <<>>, user |-> {}, product |-> {},
         txn |-> <<>>, resp |-> NoResponse]

NoCall == [cost |-> 0, carbon_emission |-> 0, ret |-> <<>>]

(***************************************************************************)
(* Table writes.  users.id is the PRIMARY KEY and users.phone_number is    *)
(* UNIQUE; purchases.id is INTEGER PRIMARY KEY AUTOINCREMENT.  SQLite does *)
(* not enforce the FOREIGN KEY clauses unless asked to, and the code never *)
(* asks.                                                                   *)
(***************************************************************************)
InsertUser(table, row) ==
    IF \E r \in table : r.id = row.id \/ r.phone_number = row.phone_number
    THEN [error |-> "IntegrityError: UNIQUE constraint failed", table |-> table]
    ELSE [error |-> "", table |-> table \cup {row}]

\* UPDATE users SET green_score = ? WHERE id = ?
UpdateGreenScore(table, user_id, new_green_score) ==
    {IF r.id = user_id THEN [r EXCEPT !.green_score = new_green_score] ELSE r
        : r \in table}

\* cursor.lastrowid of the next INSERT INTO purchases
NextPurchaseId(table) == IF Len(table) = 0 THEN 1 ELSE table[Len(table)].id + 1

InsertPurchase(table, user_id, product_id, timestamp, impact_on_green_score) ==
    Append(table, [id |-> NextPurchaseId(table), user_id |-> user_id,
                   product_id |-> product_id, timestamp |-> timestamp,
                   impact_on_green_score |-> impact_on_green_score])

InitialGreenScore_Bonus == 0 + 10

\* the green_score register_user stores
InitialGreenScore == 0

(***************************************************************************)
(* The handlers, one request at a time.                                    *)
(***************************************************************************)
ExistingUser_ByName(user) == Select(users, UsersColumns, "name", user.name).rows

\* SELECT id FROM users WHERE phone_number = ?, then fetchone()
ExistingUser(user) ==
    Select(users, UsersColumns, "phone_number", user.phone_number).rows

\* uuid4(): a token that no stored row and no request in flight holds; which
\* one is immaterial, so it is the least one
TakenUserIds ==
    {r.id : r \in users} \cup
    {conn[w].args[3] : w \in {v \in Workers : conn[v].op = "register_user"}}

uuid4 == CHOOSE i \in UserIds \ TakenUserIds : \A j \in UserIds \ TakenUserIds : i <= j

\* user is the validated body [phone_number, name]; user_id is uuid4()
register_user(user, user_id) ==
    LET args == <<user.phone_number, user.name>>
        existing_user == ExistingUser(user)
        new_user == [id |-> user_id, phone_number |-> user.phone_number,
                     name |-> user.name, green_score |-> InitialGreenScore]
        inserted == InsertUser(users, new_user)
    IN  /\ UserIds \ TakenUserIds # {}
        /\ user_id = uuid4
        /\ IF existing_user # {}
           THEN /\ response' = HTTPException("register_user", args, 400,
                                             "Phone number already registered")
                /\ users' = users
           ELSE IF inserted.error # ""
           THEN /\ response' = Unhandled("register_user", args, inserted.error)
                /\ users' = users
           ELSE /\ response' = Returned("register_user", args, new_user)
                /\ users' = inserted.table
        /\ UNCHANGED <<products, purchases, conn, lock, scoring>>

get_user(user_id) ==
    LET row == Select(users, UsersColumns, "id", user_id).rows
    IN  /\ response' = IF row = {}
                       THEN HTTPException("get_user", <<user_id>>, 404, "User not found")
                       ELSE Returned("get_user", <<user_id>>, TheRow(row))
        /\ UNCHANGED <<users, products, purchases, conn, lock, scoring>>

get_green_score(user_id) ==
    LET row == Select(users, UsersColumns, "id", user_id).rows
    IN  /\ response' = IF row = {}
                       THEN HTTPException("get_green_score", <<user_id>>, 404,
                                          "User not found")
                       ELSE Returned("get_green_score", <<user_id>>,
                                     [user_id |-> TheRow(row).id,
                                      green_score |-> TheRow(row).green_score])
        /\ UNCHANGED <<users, products, purchases, conn, lock, scoring>>

\* purchase is the validated body [user_id, product_id]; timestamp is utcnow()
record_purchase(purchase, timestamp) ==
    LET args == <<purchase.user_id, purchase.product_id>>
        user == Select(users, UsersColumns, "id", purchase.user_id).rows
        found == Select(products, ProductsColumns, "product_id", purchase.product_id)
        product == found.rows
        \* product[4] and user[3]: the fifth and the fourth column of the row
        impact_on_green_score == TheRow(product)[ProductsColumns[5]]
        new_green_score == TheRow(user)[UsersColumns[4]] + impact_on_green_score
    IN  /\ IF user = {}
           THEN /\ response' = HTTPException("record_purchase", args, 404, "User not found")
                /\ UNCHANGED <<users, purchases>>
           ELSE IF found.error # ""
           THEN /\ response' = Unhandled("record_purchase", args, found.error)
                /\ UNCHANGED <<users, purchases>>
           ELSE IF product = {}
           THEN /\ response' = HTTPException("record_purchase", args, 404,
                                             "Product not found")
                /\ UNCHANGED <<users, purchases>>
           ELSE /\ users' = UpdateGreenScore(users, purchase.user_id, new_green_score)
                /\ purchases' = InsertPurchase(purchases, purchase.user_id,
                                               purchase.product_id, timestamp,
                                               impact_on_green_score)
                /\ response' = Returned("record_purchase", args,
                                        [id |-> NextPurchaseId(purchases),
                                         user_id |-> purchase.user_id,
                                         product_id |-> purchase.product_id,
                                         timestamp |-> timestamp,
                                         impact_on_green_score |-> impact_on_green_score])
        /\ UNCHANGED <<products, conn, lock, scoring>>

\* the rows of SELECT p.id, p.product_id, pr.name, p.timestamp,
\* p.impact_on_green_score FROM purchases p JOIN products pr ... WHERE p.user_id = ?
UserPurchaseRows(user_id) ==
    {[id |-> purchases[x[1]].id, product_id |-> purchases[x[1]].product_id,
      product_name |-> x[2].name, timestamp |-> purchases[x[1]].timestamp,
      impact_on_green_score |-> purchases[x[1]].impact_on_green_score]
        : x \in {y \in (1..Len(purchases)) \X products :
                    /\ purchases[y[1]].user_id = user_id
                    /\ y[2].id = purchases[y[1]].product_id}}

\* the query has no ORDER BY: the rows come in an order of the engine's choosing
Orderings(rows) ==
    {s \in [1..Cardinality(rows) -> rows] : \A r \in rows : \E i \in DOMAIN s : s[i] = r}

get_user_purchases(user_id) ==
    LET user == Select(users, UsersColumns, "id", user_id).rows
    IN  /\ IF "get_db_connection" \notin ModuleGlobals
           THEN response' = Unhandled("get_user_purchases", <<user_id>>, "NameError")
           ELSE IF user = {}
           THEN response' = IF "HTTPException" \in ModuleGlobals
                            THEN HTTPException("get_user_purchases", <<user_id>>, 404,
                                               "User not found")
                            ELSE Unhandled("get_user_purchases", <<user_id>>, "NameError")
           ELSE \E user_purchases \in Orderings(UserPurchaseRows(user_id)) :
                    response' = [Returned("get_user_purchases", <<user_id>>, <<>>)
                                    EXCEPT !.body = user_purchases]
        /\ UNCHANGED <<users, products, purchases, conn, lock, scoring>>

\* the catalog store's insert: the sustainability score is derived once, at
\* creation, from cost and carbon_emission
ProductRow(product_id, name, cost, carbon_emission) ==
    [id |-> product_id, name |-> name, cost |-> cost,
     carbon_emission |-> carbon_emission,
     sustainability_score |-> calculate_green_score(cost, carbon_emission)]

add_product(product_id, name, cost, carbon_emission) ==
    /\ \A r \in products : r.id # product_id
    /\ products' = products \cup {ProductRow(product_id, name, cost, carbon_emission)}
    /\ response' = Returned("add_product", <<product_id>>, product_id)
    /\ UNCHANGED <<users, purchases, conn, lock, scoring>>

\* init_db on a new database file: three empty tables
Init ==
    /\ users = {}
    /\ products = {}
    /\ purchases = <<>>
    /\ response = NoResponse
    /\ conn = [w \in Workers |-> Idle]
    /\ lock = 0
    /\ scoring = NoCall

Next ==
    \/ \E phone_number \in Phones, name \in Names, user_id \in UserIds :
          register_user([phone_number |-> phone_number, name |-> name], user_id)
    \/ \E user_id \in UserIds : get_user(user_id)
    \/ \E user_id \in UserIds : get_green_score(user_id)
    \/ \E user_id \in UserIds, product_id \in ProductIds, timestamp \in Times :
          record_purchase([user_id |-> user_id, product_id |-> product_id], timestamp)
    \/ \E user_id \in UserIds : get_user_purchases(user_id)
    \/ \E product_id \in ProductIds, name \in ProductNames,
          cost \in CatalogCosts, carbon_emission \in CatalogEmissions :
          add_product(product_id, name, cost, carbon_emission)

Spec == Init /\ [][Next]_vars

(***************************************************************************)
(* calculate_green_score on the grid.                                      *)
(***************************************************************************)
ScoreInit ==
    /\ users = {}
    /\ products = {}
    /\ purchases = <<>>
    /\ response = NoResponse
    /\ conn = [w \in Workers |-> Idle]
    /\ lock = 0
    /\ scoring \in [cost : CostGrid, carbon_emission : EmissionGrid, ret : {<<>>}]

ScoreCall ==
    /\ scoring.ret = <<>>
    /\ scoring' = [scoring EXCEPT
                      !.ret = <<calculate_green_score(scoring.cost, scoring.carbon_emission)>>]
    /\ UNCHANGED <<users, products, purchases, response, conn, lock>>

ScoreSpec == ScoreInit /\ [][ScoreCall]_vars

(***************************************************************************)
(* The synchronous handlers, one statement at a time.  Each request has    *)
(* its own connection.  sqlite3 opens a transaction implicitly before the  *)
(* first INSERT or UPDATE of a connection; the statement takes the         *)
(* database's write lock, which the connection keeps until it commits or   *)
(* is dropped.  Uncommitted writes are visible to their connection only.   *)
(* A statement that needs the lock while another connection holds it       *)
(* waits, and raises OperationalError (database is locked) if the wait     *)
(* times out.  lock is the thread holding the write lock, 0 for none.      *)
(***************************************************************************)
Outcome(c, u, p, l) == [conn |-> c, users |-> u, purchases |-> p, lock |-> l]

\* the exception leaves the handler; the connection is dropped (its open
\* transaction rolled back) when the frame is released
Raise(c, exception) ==
    [c EXCEPT !.pc = "unwind", !.resp = Unhandled(c.op, c.args, exception)]

Finish(c, resp) == [c EXCEPT !.pc = "done", !.txn = <<>>, !.resp = resp]

Unwind(c, w) ==
    Outcome([c EXCEPT !.pc = "done", !.txn = <<>>], users, purchases,
            IF lock = w THEN 0 ELSE lock)

\* c.args = <<phone_number, name, user_id>>
register_user_statement(c, w, timeout) ==
    LET new_user == [id |-> c.args[3], phone_number |-> c.args[1],
                     name |-> c.args[2], green_score |-> InitialGreenScore]
        inserted == InsertUser(users, new_user)
    IN  CASE c.pc = "select_phone" ->
               IF ExistingUser([phone_number |-> c.args[1], name |-> c.args[2]]) # {}
               THEN Outcome(Finish(c, HTTPException(c.op, c.args, 400,
                                                    "Phone number already registered")),
                            users, purchases, lock)
               ELSE Outcome([c EXCEPT !.pc = "insert"], users, purchases, lock)
          [] c.pc = "insert" ->
               IF timeout
               THEN Outcome(Raise(c, "OperationalError: database is locked"),
                            users, purchases, lock)
               ELSE IF inserted.error # ""
               THEN Outcome(Raise(c, inserted.error), users, purchases, w)
               ELSE Outcome([c EXCEPT !.pc = "commit",
                                      !.txn = <<[users |-> inserted.table,
                                                 purchases |-> purchases]>>],
                            users, purchases, w)
          [] c.pc = "commit" ->
               Outcome(Finish(c, Returned(c.op, c.args, new_user)),
                       c.txn[1].users, c.txn[1].purchases, 0)
          [] OTHER -> Unwind(c, w)

\* c.args = <<user_id, product_id, timestamp>>
record_purchase_statement(c, w, timeout) ==
    LET found == Select(products, ProductsColumns, "product_id", c.args[2])
        impact_on_green_score == TheRow(c.product)[ProductsColumns[5]]
        new_green_score == TheRow(c.user)[UsersColumns[4]] + impact_on_green_score
    IN  CASE c.pc = "select_user" ->
               IF Select(users, UsersColumns, "id", c.args[1]).rows = {}
               THEN Outcome(Finish(c, HTTPException(c.op, c.args, 404, "User not found")),
                            users, purchases, lock)
               ELSE Outcome([c EXCEPT !.pc = "select_product",
                                      !.user = Select(users, UsersColumns, "id",
                                                      c.args[1]).rows],
                            users, purchases, lock)
          [] c.pc = "select_product" ->
               IF found.error # ""
               THEN Outcome(Raise(c, found.error), users, purchases, lock)
               ELSE IF found.rows = {}
               THEN Outcome(Finish(c, HTTPException(c.op, c.args, 404,
                                                    "Product not found")),
                            users, purchases, lock)
               ELSE Outcome([c EXCEPT !.pc = "update", !.product = found.rows],
                            users, purchases, lock)
          [] c.pc = "update" ->
               IF timeout
               THEN Outcome(Raise(c, "OperationalError: database is locked"),
                            users, purchases, lock)
               ELSE Outcome([c EXCEPT !.pc = "insert",
                                      !.txn = <<[users |-> UpdateGreenScore(
                                                     users, c.args[1], new_green_score),
                                                 purchases |-> purchases]>>],
                            users, purchases, w)
          [] c.pc = "insert" ->
               Outcome([c EXCEPT !.pc = "commit",
                                 !.txn = <<[users |-> c.txn[1].users,
                                            purchases |-> InsertPurchase(
                                                c.txn[1].purchases, c.args[1], c.args[2],
                                                c.args[3], impact_on_green_score)]>>],
                       users, purchases, lock)
          [] c.pc = "commit" ->
               Outcome(Finish(c, Returned(c.op, c.args,
                                  [id |-> NextPurchaseId(c.txn[1].purchases) - 1,
                                   user_id |-> c.args[1], product_id |-> c.args[2],
                                   timestamp |-> c.args[3],
                                   impact_on_green_score |-> impact_on_green_score])),
                       c.txn[1].users, c.txn[1].purchases, 0)
          [] OTHER -> Unwind(c, w)

\* the statement is the first write of its connection
TakesLock(c) ==
    \/ c.op = "register_user" /\ c.pc = "insert"
    \/ c.op = "record_purchase" /\ c.pc = "update"

accept_register_user(w, user, user_id) ==
    /\ conn[w].pc = "idle"
    /\ UserIds \ TakenUserIds # {}
    /\ user_id = uuid4
    /\ conn' = [conn EXCEPT ![w] = [Idle EXCEPT !.op = "register_user",
                                                !.pc = "select_phone",
                                                !.args = <<user.phone_number, user.name,
                                                           user_id>>]]
    /\ UNCHANGED <<users, products, purchases, response, lock, scoring>>

\* the reading of utcnow() the handler will make is drawn with the request
accept_record_purchase(w, purchase, timestamp) ==
    /\ conn[w].pc = "idle"
    /\ conn' = [conn EXCEPT ![w] = [Idle EXCEPT !.op = "record_purchase",
                                                !.pc = "select_user",
                                                !.args = <<purchase.user_id,
                                                           purchase.product_id,
                                                           timestamp>>]]
    /\ UNCHANGED <<users, products, purchases, response, lock, scoring>>

run_statement(w, timeout) ==
    LET c == conn[w]
        blocked == TakesLock(c) /\ lock \notin {0, w}
        out == IF c.op = "register_user" THEN register_user_statement(c, w, timeout)
               ELSE record_purchase_statement(c, w, timeout)
    IN  /\ c.pc \notin {"idle", "done"}
        /\ timeout = blocked
        /\ conn' = [conn EXCEPT ![w] = out.conn]
        /\ users' = out.users
        /\ purchases' = out.purchases
        /\ lock' = out.lock
        /\ UNCHANGED <<products, response, scoring>>

send_response(w) ==
    /\ conn[w].pc = "done"
    /\ response' = conn[w].resp
    /\ conn' = [conn EXCEPT ![w] = Idle]
    /\ UNCHANGED <<users, products, purchases, lock, scoring>>

AllProductRows ==
    {ProductRow(product_id, name, cost, carbon_emission) :
        product_id \in ProductIds, name \in ProductNames,
        cost \in CatalogCosts, carbon_emission \in CatalogEmissions}

\* the server starts on a database file whose catalogue is already stored:
\* one row for every product id
ConcInit ==
    /\ users = {}
    /\ products \in {t \in SUBSET AllProductRows :
                        /\ \A r1, r2 \in t : r1.id = r2.id => r1 = r2
                        /\ \A product_id \in ProductIds : \E r \in t : r.id = product_id}
    /\ purchases = <<>>
    /\ response = NoResponse
    /\ conn = [w \in Workers |-> Idle]
    /\ lock = 0
    /\ scoring = NoCall

ConcNext ==
    \/ \E w \in Workers, phone_number \in Phones, name \in ConcNames, user_id \in UserIds :
          accept_register_user(w, [phone_number |-> phone_number, name |-> name], user_id)
    \/ \E w \in Workers, user_id \in UserIds, product_id \in ProductIds,
          timestamp \in ConcTimes :
          accept_record_purchase(w, [user_id |-> user_id, product_id |-> product_id],
                                 timestamp)
    \/ \E w \in Workers, timeout \in BOOLEAN : run_statement(w, timeout)
    \/ \E w \in Workers : send_response(w)
    \/ \E user_id \in UserIds : get_green_score(user_id)

ConcSpec == ConcInit /\ [][ConcNext]_vars

(***************************************************************************)
(* Properties.                                                             *)
(***************************************************************************)
UserExists(user_id) == \E r \in users : r.id = user_id
ProductExists(product_id) == \E r \in products : r.id = product_id
UserOf(user_id) == CHOOSE r \in users : r.id = user_id
ProductOf(product_id) == CHOOSE r \in products : r.id = product_id

RECURSIVE SumImpacts(_, _)
\* the sum of impact_on_green_score over the rows of table with this user_id
SumImpacts(table, user_id) ==
    IF table = <<>> THEN 0
    ELSE (IF Head(table).user_id = user_id THEN Head(table).impact_on_green_score ELSE 0)
         + SumImpacts(Tail(table), user_id)

\* the step is the execution of a record_purchase request, a register_user
\* request; the request is the one the response answers
PurchaseAnswered == [user_id |-> response'.args[1], product_id |-> response'.args[2]]
IsRecordPurchase ==
    /\ response'.op = "record_purchase"
    /\ \E timestamp \in Times : record_purchase(PurchaseAnswered, timestamp)
UserAnswered == [phone_number |-> response'.args[1], name |-> response'.args[2]]
IsRegisterUser ==
    /\ response'.op = "register_user"
    /\ \E user_id \in UserIds : register_user(UserAnswered, user_id)

\* C1: with requests executed one at a time, every stored user's green_score
\* equals the sum of impact_on_green_score over the purchases rows of that user
C1_ScoreIsSumOfImpacts ==
    \A r \in users : r.green_score = SumImpacts(purchases, r.id)

\* C1 witness: users are stored and the last request was a record_purchase for one
\* of them
C1_PurchaseAttemptedForUser ==
    /\ response.op = "record_purchase"
    /\ UserExists(response.args[1])
    /\ ProductExists(response.args[2])

\* C2: record_purchase for an existing user and an existing product succeeds: the
\* user's green_score grows by the product's sustainability_score, exactly one
\* purchases row with that user, product and impact is appended, and the created
\* purchase is returned
C2_PurchaseRecorded ==
    [][(/\ IsRecordPurchase
        /\ UserExists(PurchaseAnswered.user_id)
        /\ ProductExists(PurchaseAnswered.product_id))
       => LET impact == ProductOf(PurchaseAnswered.product_id).sustainability_score
              row == purchases'[Len(purchases')]
          IN  /\ response'.status = 200
              /\ users' = UpdateGreenScore(users, PurchaseAnswered.user_id,
                              UserOf(PurchaseAnswered.user_id).green_score + impact)
              /\ Len(purchases') = Len(purchases) + 1
              /\ SubSeq(purchases', 1, Len(purchases)) = purchases
              /\ row.user_id = PurchaseAnswered.user_id
              /\ row.product_id = PurchaseAnswered.product_id
              /\ row.impact_on_green_score = impact
              /\ response'.body = <<row>>]_vars

\* C3: record_purchase for a user_id that is not in users fails with 404 "User not
\* found" and leaves users, products and purchases as they were
C3_UnknownUserRejected ==
    [][(IsRecordPurchase /\ ~UserExists(PurchaseAnswered.user_id))
       => /\ response'.status = 404
          /\ response'.detail = "User not found"
          /\ UNCHANGED <<users, products, purchases>>]_vars

\* C3 witness: the last request was a record_purchase for an unknown user while
\* users and products were stored, and it was answered
C3_UnknownUserAnswered ==
    /\ response.op = "record_purchase"
    /\ ~UserExists(response.args[1])
    /\ ProductExists(response.args[2])
    /\ users # {}
    /\ response.status = 404

\* C4: record_purchase for an existing user and a product_id that is not in
\* products fails with 404 "Product not found" and leaves the user's green_score
\* and the purchases table as they were
C4_UnknownProductRejected ==
    [][(/\ IsRecordPurchase
        /\ UserExists(PurchaseAnswered.user_id)
        /\ ~ProductExists(PurchaseAnswered.product_id))
       => /\ response'.status = 404
          /\ response'.detail = "Product not found"
          /\ UNCHANGED <<users, purchases>>]_vars

UniquePhones == \A r1, r2 \in users : r1.phone_number = r2.phone_number => r1 = r2

\* C5: register_user with a phone number an existing user holds fails with 400
\* "Phone number already registered", inserts no row and leaves the existing user
\* unchanged; and no two stored users ever share a phone number
C5_DuplicatePhoneRejected ==
    /\ UniquePhones
    /\ [][/\ UniquePhones'
          /\ (/\ IsRegisterUser
               /\ \E r \in users : r.phone_number = UserAnswered.phone_number)
             => /\ response'.status = 400
                /\ response'.detail = "Phone number already registered"
                /\ users' = users]_vars

\* C5 witness: the last request was a register_user under another name for a phone
\* number a stored user holds
C5_DuplicatePhoneAnswered ==
    /\ response.op = "register_user"
    /\ response.status = 400
    /\ \E r \in users : r.phone_number = response.args[1] /\ r.name # response.args[2]

\* the purchases rows of a user, in rowid order, as get_user_purchases reports them
RECURSIVE ListedPurchases(_, _)
ListedPurchases(table, user_id) ==
    IF table = <<>> THEN <<>>
    ELSE (IF Head(table).user_id = user_id
          THEN <<[id |-> Head(table).id, product_id |-> Head(table).product_id,
                  product_name |-> ProductOf(Head(table).product_id).name,
                  timestamp |-> Head(table).timestamp,
                  impact_on_green_score |-> Head(table).impact_on_green_score]>>
          ELSE <<>>) \o ListedPurchases(Tail(table), user_id)

\* C6: get_user_purchases for an existing user succeeds and lists that user's
\* purchases in the order they were recorded (increasing purchase id)
C6_PurchasesListedInOrder ==
    (response.op = "get_user_purchases" /\ UserExists(response.args[1]))
    => /\ response.status = 200
       /\ response.body = ListedPurchases(purchases, response.args[1])

\* the exact value 100 - max(0,(50-cost)/50)*20 - max(0,(20-emission)/20)*80 as the
\* fraction ScoreNumerator / ScoreDenominator, for grid numerators cost and emission
ScoreDenominator == 100 * Scale
ScoreNumerator(cost, carbon_emission) ==
    100 * ScoreDenominator
    - 40 * (IF 50 * Scale > cost THEN 50 * Scale - cost ELSE 0)
    - 400 * (IF 20 * Scale > carbon_emission THEN 20 * Scale - carbon_emission ELSE 0)

\* C7: calculate_green_score returns the value of the formula truncated toward
\* zero; 100 for cost >= 50 and carbon_emission >= 20, 0 for cost = 0 and
\* carbon_emission = 0, and 24 for cost = 10 and carbon_emission = 5
C7_ScoreIsTruncatedFormula ==
    scoring.ret # <<>> =>
        LET r == scoring.ret[1]
            n == ScoreNumerator(scoring.cost, scoring.carbon_emission)
            d == ScoreDenominator
        IN  /\ n >= 0 => r >= 0 /\ r * d <= n /\ n < (r + 1) * d
            /\ n <= 0 => r <= 0 /\ r * d >= n /\ n > (r - 1) * d
            /\ (scoring.cost >= 50 * Scale /\ scoring.carbon_emission >= 20 * Scale)
               => r = 100
            /\ (scoring.cost = 0 /\ scoring.carbon_emission = 0) => r = 0
            /\ (scoring.cost = 10 * Scale /\ scoring.carbon_emission = 5 * Scale)
               => r = 24

\* C7 witness: the function has returned 24 for cost = 10, carbon_emission = 5
C7_ExampleScored ==
    /\ scoring.cost = 10 * Scale
    /\ scoring.carbon_emission = 5 * Scale
    /\ scoring.ret = <<24>>

\* C8 as stated: some cost >= 0 and carbon_emission >= 0 give a score below zero
C8_NegativeScoreInDomain ==
    scoring.ret # <<>> =>
        \E cost \in CostGrid, carbon_emission \in EmissionGrid :
            /\ cost >= 0
            /\ carbon_emission >= 0
            /\ calculate_green_score(cost, carbon_emission) < 0

\* C8 as amended: for cost >= 0 and carbon_emission >= 0 the score is never below
\* zero, and it is zero at cost = 0, carbon_emission = 0
C8_ScoreNonNegativeInDomain ==
    (scoring.ret # <<>> /\ scoring.cost >= 0 /\ scoring.carbon_emission >= 0)
    => /\ scoring.ret[1] >= 0
       /\ (scoring.cost = 0 /\ scoring.carbon_emission = 0) => scoring.ret[1] = 0

\* C8 witness: the function has been applied to cost = 0, carbon_emission = 0
C8_LowestInputsScored ==
    /\ scoring.cost = 0
    /\ scoring.carbon_emission = 0
    /\ scoring.ret # <<>>

\* thread w runs record_purchase, has fetched its user row and has not yet
\* written
HasReadNotWritten(w) ==
    /\ conn[w].op = "record_purchase"
    /\ conn[w].pc \in {"select_product", "update"}
    /\ conn[w].user # {}
    /\ ProductExists(conn[w].args[2])

\* C9: two concurrent record_purchase requests for the same existing user and
\* existing products can both read the user's green_score before either writes and
\* then both go on to write (storing both rows and a green_score that is not the
\* sum of their impacts): from a state where both have read and neither has
\* written, the next statement of either leads to its UPDATE
C9_LostUpdate ==
    [][\A w1, w2 \in Workers :
          (/\ w1 # w2
           /\ HasReadNotWritten(w1)
           /\ HasReadNotWritten(w2)
           /\ conn[w1].args[1] = conn[w2].args[1]
           /\ conn[w1].user = conn[w2].user
           /\ run_statement(w1, FALSE))
          => /\ conn'[w1].pc \in {"update", "insert"}
             /\ conn'[w1].product = {ProductOf(conn[w1].args[2])}]_vars

====
